---- MODULE Spec2Model ----
(***************************************************************************)
(* A model of app.py: the OAuth token generator (get_token_auth over       *)
(* generate_tokens), the credential materializer (authenticate_with_token) *)
(* and the two uploaders (upload_file_to_drive and                         *)
(* upload_file_to_drive_as_google_sheet).                                  *)
(*                                                                         *)
(* The identity provider, the vendor SDK's Credentials object and the      *)
(* remote storage service are the environment of app.py.  They are         *)
(* modelled by their contracts: the token endpoint issues fresh access     *)
(* tokens and rejects revoked refresh tokens, Credentials.valid is "a      *)
(* token is present and it is not expired", and the storage service        *)
(* answers a create-file request with an identifier or an error.  Every    *)
(* outcome the environment decides (consent, expiry of a record without an *)
(* expiry field, readability of the local file, acceptance of the          *)
(* credentials, transport failure) is a nondeterministic choice.           *)
(***************************************************************************)
EXTENDS Integers, Sequences, FiniteSets, TLC

(***************************************************************************)
(* Bounds of the model.                                                    *)
(***************************************************************************)
\* Authorization flows the identity provider completes (refresh tokens issued).
MaxGrants == 1
\* Access tokens the token endpoint issues (by consent or by refresh).
MaxAccess == 2
\* Objects the storage account holds before it answers QuotaError.
StorageQuota == 1

(***************************************************************************)
(* Values.                                                                 *)
(***************************************************************************)
\* Python's None (and the absent token of a record), as a token value.
None == <<>>
AccessToken(n) == <<"access", n>>
RefreshToken(n) == <<"refresh", n>>
FileId(n) == <<"id", n>>
NoError == "NoError"

DRIVE_SCOPE == "https://www.googleapis.com/auth/drive"
TOKEN_URI == "https://oauth2.googleapis.com/token"
SHEET_MIME == "application/vnd.google-apps.spreadsheet"
XLSX_MIME == "application/vnd.openxmlformats-officedocument.spreadsheetml.sheet"
TEXT_MIME == "text/plain"
OCTET_MIME == "application/octet-stream"

\* The path separator of os.path.
Sep == "/"

(***************************************************************************)
(* Inputs of the calls.                                                    *)
(***************************************************************************)
\* file_path: a path is the sequence of its separators and name pieces.
FilePaths ==
    { <<>>,
      <<"report.xlsx">>,
      <<Sep, "tmp", Sep, "report.xlsx">>,
      <<"tmp", Sep, "notes.txt">>,
      <<Sep, "tmp", Sep>> }

\* folder_id, and the containers that exist in the storage account.
FolderIds == {"FOLDER123", "DOES_NOT_EXIST"}
ExistingFolders == {"FOLDER123"}

ClientIds == {"client-id"}
ClientSecrets == {"client-secret"}

\* The "expiry" entry of a token dictionary, read against the clock.
Expiries == {"absent", "past", "future"}

UploadOps == {"upload_file_to_drive", "upload_file_to_drive_as_google_sheet"}

(***************************************************************************)
(* State.                                                                  *)
(***************************************************************************)
VARIABLES
    pc,             \* where the current call stands: idle, upload, returned, raised
    op,             \* the function called
    file_path,      \* argument file_path
    token,          \* argument token (the token dictionary)
    folder_id,      \* argument folder_id
    built,          \* the handle as from_authorized_user_info built it
    creds,          \* the handle authenticate_with_token returned
    refreshes,      \* refresh calls this call sent to the token endpoint
    requests,       \* create-file requests this call sent to the storage service
    response,       \* the storage service's answer to the create-file request
    file_id,        \* the value an upload returned
    token_auth,     \* the dictionary get_token_auth returned
    error,          \* the exception the call raised
    grants,         \* identity provider: refresh tokens issued
    accessIssued,   \* identity provider: access tokens issued
    revoked,        \* identity provider: refresh tokens revoked
    objects,        \* storage service: the objects of the account
    objectsBefore   \* storage service: the objects when the current call began

vars == << pc, op, file_path, token, folder_id, built, creds, refreshes, requests,
           response, file_id, token_auth, error, grants, accessIssued, revoked,
           objects, objectsBefore >>

frame == << file_path, token, folder_id, built, creds, refreshes, requests,
            response, file_id, token_auth, error >>

(***************************************************************************)
(* Token dictionaries and credential handles.                              *)
(***************************************************************************)
\* A token dictionary with no content: the value of the variables outside a call.
NoRecord ==
    [ token |-> None, refresh_token |-> None, token_uri |-> "", client_id |-> "",
      client_secret |-> "", scopes |-> <<>>, expiry |-> "absent" ]

\* Mutant of TokenAuth: the refresh token is left out of the dictionary.
TokenAuth_DropsRefresh(access_token, refresh_token, client_id, client_secret) ==
    [ token |-> access_token,
      refresh_token |-> None,
      token_uri |-> TOKEN_URI,
      client_id |-> client_id,
      client_secret |-> client_secret,
      scopes |-> <<DRIVE_SCOPE>>,
      expiry |-> "absent" ]

\* get_token_auth's dictionary (it has no "expiry" entry).
TokenAuth(access_token, refresh_token, client_id, client_secret) ==
    [ token |-> access_token,
      refresh_token |-> refresh_token,
      token_uri |-> TOKEN_URI,
      client_id |-> client_id,
      client_secret |-> client_secret,
      scopes |-> <<DRIVE_SCOPE>>,
      expiry |-> "absent" ]

\* The token dictionaries a caller may hold: any token the provider has issued, or
\* none, with or without an expiry entry.  The keys from_authorized_user_info
\* requires (refresh_token, client_id, client_secret) are present; a value may be
\* None.
TokenRecords ==
    [ token : {None} \cup {AccessToken(n) : n \in 1..accessIssued},
      refresh_token : {None} \cup {RefreshToken(n) : n \in 1..grants},
      token_uri : {TOKEN_URI},
      client_id : ClientIds,
      client_secret : ClientSecrets,
      scopes : {<<DRIVE_SCOPE>>},
      expiry : Expiries ]

NoCreds == [ token |-> None, refresh_token |-> None, expired |-> FALSE ]

\* Credentials.from_authorized_user_info: the handle of a dictionary.  A dictionary
\* without an expiry entry is expired or not as the SDK's version decides.
FromAuthorizedUserInfo(info, absentIsExpired) ==
    [ token |-> info.token,
      refresh_token |-> info.refresh_token,
      expired |-> CASE info.expiry = "past" -> TRUE
                    [] info.expiry = "future" -> FALSE
                    [] OTHER -> absentIsExpired ]

\* What the SDK may decide for a dictionary: a choice only when the entry is absent.
AbsentChoices(info) == IF info.expiry = "absent" THEN BOOLEAN ELSE {FALSE}

\* creds.valid
Valid(c) == c.token # None /\ ~c.expired

\* Mutants of NeedsRefresh: a refresh only when no token is held at all; a refresh
\* whenever a refresh token is held; a refresh of any invalid handle.
NeedsRefresh_OnlyWithoutToken(c) == c.token = None /\ c.expired /\ c.refresh_token # None
NeedsRefresh_Always(c) == c.refresh_token # None
NeedsRefresh_AnyInvalid(c) == ~Valid(c) /\ c.refresh_token # None

\* The test of lines 63 and 65: the handle is refreshed.
NeedsRefresh(c) == ~Valid(c) /\ c.expired /\ c.refresh_token # None

\* The token endpoint's verdict on a refresh token.
Live(refresh_token) ==
    \E n \in 1..grants : refresh_token = RefreshToken(n) /\ n \notin revoked

\* creds.refresh(Request()) answered by the token endpoint: a fresh access token,
\* the refresh token kept.
Refreshed(c) ==
    [ token |-> AccessToken(accessIssued + 1),
      refresh_token |-> c.refresh_token,
      expired |-> FALSE ]

\* authenticate_with_token: the handle returned, the refresh calls made and the
\* exception raised.
Authenticate(info, absentIsExpired) ==
    LET c == FromAuthorizedUserInfo(info, absentIsExpired)
    IN  IF NeedsRefresh(c)
        THEN IF Live(c.refresh_token)
             THEN [ built |-> c, creds |-> Refreshed(c), error |-> NoError,
                    refreshes |-> << [refresh_token |-> c.refresh_token,
                                      accepted |-> TRUE] >> ]
             ELSE [ built |-> c, creds |-> NoCreds, error |-> "TokenRefreshError",
                    refreshes |-> << [refresh_token |-> c.refresh_token,
                                      accepted |-> FALSE] >> ]
        ELSE [ built |-> c, creds |-> c, error |-> NoError, refreshes |-> <<>> ]

\* The token endpoint issued an access token in the course of a.
IssuesToken(a) == a.refreshes # <<>> /\ a.error = NoError

(***************************************************************************)
(* The uploaders.                                                          *)
(***************************************************************************)
RECURSIVE BaseName(_)
\* os.path.basename: what follows the last separator.
BaseName(path) ==
    IF path = <<>> \/ path[Len(path)] = Sep
    THEN <<>>
    ELSE Append(BaseName(SubSeq(path, 1, Len(path) - 1)), path[Len(path)])

\* Mutants of FileMetadata: the whole path as the name; the spreadsheet metadata
\* for every upload.
FileMetadata_FullPath(kind, path, folder) ==
    IF kind = "upload_file_to_drive_as_google_sheet"
    THEN [ name |-> path, mimeType |-> SHEET_MIME, parents |-> <<folder>> ]
    ELSE [ name |-> path, parents |-> <<folder>> ]
FileMetadata_AlwaysSheet(kind, path, folder) ==
    [ name |-> BaseName(path), mimeType |-> SHEET_MIME, parents |-> <<folder>> ]

\* The metadata of the create-file request.
FileMetadata(kind, path, folder) ==
    IF kind = "upload_file_to_drive_as_google_sheet"
    THEN [ name |-> BaseName(path), mimeType |-> SHEET_MIME, parents |-> <<folder>> ]
    ELSE [ name |-> BaseName(path), parents |-> <<folder>> ]

\* MediaFileUpload without a mimetype guesses it from the file's extension.
GuessType(path) ==
    LET name == BaseName(path)
    IN  IF name = <<>> THEN OCTET_MIME
        ELSE CASE name[Len(name)] = "report.xlsx" -> XLSX_MIME
               [] name[Len(name)] = "notes.txt" -> TEXT_MIME
               [] OTHER -> OCTET_MIME

\* Mutant of MediaBody: the MIME type is guessed for the spreadsheet upload too.
MediaBody_Guessed(kind, path) ==
    [ filename |-> path, mimetype |-> GuessType(path), resumable |-> TRUE ]

\* The media body of the create-file request.
MediaBody(kind, path) ==
    [ filename |-> path,
      mimetype |-> IF kind = "upload_file_to_drive_as_google_sheet"
                   THEN XLSX_MIME ELSE GuessType(path),
      resumable |-> TRUE ]

\* service.files().create(body, media_body, fields), sent with the handle the
\* service was built with.
CreateRequest(kind, path, folder, c) ==
    [ body |-> FileMetadata(kind, path, folder),
      media_body |-> MediaBody(kind, path),
      fields |-> "id",
      credentials |-> c ]

\* The storage service's answer to a create-file request.
ServiceAnswer(req, accepted, delivered) ==
    IF ~delivered THEN "failed"
    ELSE IF ~accepted THEN "401"
    ELSE IF \E i \in 1..Len(req.body.parents) : req.body.parents[i] \notin ExistingFolders
         THEN "404"
    ELSE IF Cardinality(objects) >= StorageQuota THEN "403"
    ELSE "200"

\* The exception execute() raises for an answer.
ErrorOf(answer) ==
    CASE answer = "200" -> NoError
      [] answer = "401" -> "Unauthorized"
      [] answer = "404" -> "NotFoundError"
      [] answer = "403" -> "QuotaError"
      [] OTHER -> "UploadError"

\* The object the storage service creates for a request it accepts.
NewObject(req) ==
    [ id |-> FileId(Cardinality(objects) + 1),
      name |-> req.body.name,
      parents |-> req.body.parents,
      mimeType |-> IF "mimeType" \in DOMAIN req.body
                   THEN req.body.mimeType ELSE req.media_body.mimetype ]

\* Mutants of AfterAuthenticate and AfterCreate: the exception is swallowed.
AfterAuthenticate_Swallow(err) == "upload"
AfterCreate_Swallow(err) == "returned"

\* Where an upload stands after authenticate_with_token: an exception leaves it.
AfterAuthenticate(err) == IF err # NoError THEN "raised" ELSE "upload"

\* Where an upload stands after execute(): an exception leaves it.
AfterCreate(err) == IF err # NoError THEN "raised" ELSE "returned"

\* The caller is between two calls.
Ready == pc = "idle"

\* The call has ended, by a return or by an exception.
Ended == pc \in {"returned", "raised"}

Init ==
    /\ pc = "idle"
    /\ op = "none"
    /\ file_path = <<>>
    /\ token = NoRecord
    /\ folder_id = ""
    /\ built = NoCreds
    /\ creds = NoCreds
    /\ refreshes = <<>>
    /\ requests = <<>>
    /\ response = "none"
    /\ file_id = None
    /\ token_auth = NoRecord
    /\ error = NoError
    /\ grants = 0
    /\ accessIssued = 0
    /\ revoked = {}
    /\ objects = {}
    /\ objectsBefore = {}

\* generate_tokens after a flow the user consented to: the access token and the
\* refresh token of flow.credentials, both issued by the identity provider.
GenerateTokens == << AccessToken(accessIssued + 1), RefreshToken(grants + 1) >>

\* get_token_auth(client_id, client_secret): the consent flow, then the dictionary.
GetTokenAuth(client_id, client_secret, consent) ==
    /\ Ready
    /\ grants < MaxGrants
    /\ accessIssued < MaxAccess
    /\ op' = "get_token_auth"
    /\ file_path' = <<>>
    /\ token' = NoRecord
    /\ folder_id' = ""
    /\ built' = NoCreds
    /\ creds' = NoCreds
    /\ refreshes' = <<>>
    /\ requests' = <<>>
    /\ response' = "none"
    /\ file_id' = None
    /\ objectsBefore' = objects
    /\ IF consent
       THEN /\ grants' = grants + 1
            /\ accessIssued' = accessIssued + 1
            /\ token_auth' = TokenAuth(GenerateTokens[1], GenerateTokens[2],
                                       client_id, client_secret)
            /\ error' = NoError
            /\ pc' = "returned"
       ELSE /\ UNCHANGED << grants, accessIssued >>
            /\ token_auth' = NoRecord
            /\ error' = "AuthorizationError"
            /\ pc' = "raised"
    /\ UNCHANGED << revoked, objects >>

\* authenticate_with_token(token), called on its own.
AuthenticateWithToken(info, absentIsExpired) ==
    /\ Ready
    /\ LET a == Authenticate(info, absentIsExpired)
       IN  /\ IssuesToken(a) => accessIssued < MaxAccess
           /\ built' = a.built
           /\ creds' = a.creds
           /\ refreshes' = a.refreshes
           /\ error' = a.error
           /\ pc' = IF a.error # NoError THEN "raised" ELSE "returned"
           /\ accessIssued' = IF IssuesToken(a) THEN accessIssued + 1 ELSE accessIssued
    /\ op' = "authenticate_with_token"
    /\ token' = info
    /\ file_path' = <<>>
    /\ folder_id' = ""
    /\ requests' = <<>>
    /\ response' = "none"
    /\ file_id' = None
    /\ token_auth' = NoRecord
    /\ objectsBefore' = objects
    /\ UNCHANGED << grants, revoked, objects >>

\* upload_file_to_drive / upload_file_to_drive_as_google_sheet, up to the handle:
\* creds = authenticate_with_token(token).
UploadAuthenticate(kind, path, info, folder, absentIsExpired) ==
    /\ Ready
    /\ LET a == Authenticate(info, absentIsExpired)
       IN  /\ IssuesToken(a) => accessIssued < MaxAccess
           /\ built' = a.built
           /\ creds' = a.creds
           /\ refreshes' = a.refreshes
           /\ error' = a.error
           /\ pc' = AfterAuthenticate(a.error)
           /\ accessIssued' = IF IssuesToken(a) THEN accessIssued + 1 ELSE accessIssued
    /\ op' = kind
    /\ file_path' = path
    /\ token' = info
    /\ folder_id' = folder
    /\ requests' = <<>>
    /\ response' = "none"
    /\ file_id' = None
    /\ token_auth' = NoRecord
    /\ objectsBefore' = objects
    /\ UNCHANGED << grants, revoked, objects >>

\* The rest of an upload: the service, the metadata, the media body, the
\* create-file request and the return of its identifier.  MediaFileUpload opens the
\* file and raises when it cannot (a path with no base name is no file); the
\* transport delivers the request or gives up; the service accepts the handle or
\* not, and cannot accept an invalid handle that no live refresh token backs.
\* A choice that a former one makes moot is fixed to FALSE.
UploadCreate(readable, accepted, delivered) ==
    /\ pc = "upload"
    /\ readable => BaseName(file_path) # <<>>
    /\ accepted => readable /\ delivered /\ (Valid(creds) \/ Live(creds.refresh_token))
    /\ delivered => readable
    /\ IF ~readable
       THEN /\ error' = "FileNotFoundError"
            /\ pc' = "raised"
            /\ UNCHANGED << requests, response, file_id, objects >>
       ELSE LET req == CreateRequest(op, file_path, folder_id, creds)
                answer == ServiceAnswer(req, accepted, delivered)
            IN  /\ requests' = Append(requests, req)
                /\ response' = answer
                /\ error' = ErrorOf(answer)
                /\ pc' = AfterCreate(ErrorOf(answer))
                /\ IF answer = "200"
                   THEN /\ objects' = objects \cup {NewObject(req)}
                        /\ file_id' = NewObject(req).id
                   ELSE UNCHANGED << objects, file_id >>
    /\ UNCHANGED << op, file_path, token, folder_id, built, creds, refreshes,
                    token_auth, grants, accessIssued, revoked, objectsBefore >>

\* The caller goes on after a call that ended: its frame is gone.
Continue ==
    /\ Ended
    /\ pc' = "idle"
    /\ op' = "none"
    /\ file_path' = <<>>
    /\ token' = NoRecord
    /\ folder_id' = ""
    /\ built' = NoCreds
    /\ creds' = NoCreds
    /\ refreshes' = <<>>
    /\ requests' = <<>>
    /\ response' = "none"
    /\ file_id' = None
    /\ token_auth' = NoRecord
    /\ error' = NoError
    /\ objectsBefore' = objects
    /\ UNCHANGED << grants, accessIssued, revoked, objects >>

\* The identity provider revokes a refresh token.  The calls are synchronous: a
\* revocation falls before or after a call.
Revoke(n) ==
    /\ Ready
    /\ n \in 1..grants
    /\ n \notin revoked
    /\ revoked' = revoked \cup {n}
    /\ UNCHANGED << pc, op, frame, grants, accessIssued, objects, objectsBefore >>

Next ==
    \/ /\ Ready
       /\ \E c \in ClientIds, s \in ClientSecrets, consent \in BOOLEAN :
             GetTokenAuth(c, s, consent)
    \/ /\ Ready
       /\ \E info \in TokenRecords :
             \E x \in AbsentChoices(info) : AuthenticateWithToken(info, x)
    \/ /\ Ready
       /\ \E kind \in UploadOps, path \in FilePaths, info \in TokenRecords,
             folder \in FolderIds :
             \E x \in AbsentChoices(info) :
                UploadAuthenticate(kind, path, info, folder, x)
    \/ /\ pc = "upload"
       /\ \E readable \in BOOLEAN, accepted \in BOOLEAN, delivered \in BOOLEAN :
             UploadCreate(readable, accepted, delivered)
    \/ Continue
    \/ \E n \in 1..MaxGrants : Revoke(n)

Spec == Init /\ [][Next]_vars

(***************************************************************************)
(* The claims.                                                             *)
(***************************************************************************)
IsUpload == op \in UploadOps

\* authenticate_with_token has run in the current call, on its own or at the head
\* of an upload.
AuthCalled == pc # "idle" /\ op \in UploadOps \cup {"authenticate_with_token"}

\* name is the base name of path: the longest tail of path holding no separator.
IsBaseNameOf(name, path) ==
    /\ \A i \in 1..Len(name) : name[i] # Sep
    /\ Len(name) <= Len(path)
    /\ SubSeq(path, Len(path) - Len(name) + 1, Len(path)) = name
    /\ Len(name) < Len(path) => path[Len(path) - Len(name)] = Sep

\* C1: for a token record whose access token is expired and whose refresh token is
\* valid, authenticate_with_token makes one refresh call and returns a handle whose
\* access token differs from the record's and whose refresh token is the record's.
C1_ExpiredIsRefreshed ==
    AuthCalled /\ built.expired /\ Live(token.refresh_token)
    => /\ Len(refreshes) = 1
       /\ refreshes[1].refresh_token = token.refresh_token
       /\ refreshes[1].accepted
       /\ error # "TokenRefreshError"
       /\ creds.token # None
       /\ creds.token # token.token
       /\ creds.refresh_token = token.refresh_token

C1_Witness ==
    /\ op = "authenticate_with_token"
    /\ pc = "returned"
    /\ token.token # None
    /\ built.expired
    /\ Live(token.refresh_token)
    /\ Len(refreshes) = 1

\* C2: for a token record whose access token is valid and not expired,
\* authenticate_with_token makes no refresh call and returns a handle holding the
\* record's access token.
C2_ValidIsNotRefreshed ==
    AuthCalled /\ Valid(built)
    => /\ refreshes = <<>>
       /\ creds = built
       /\ creds.token = token.token

C2_Witness ==
    /\ op = "authenticate_with_token"
    /\ pc = "returned"
    /\ Valid(built)
    /\ Live(token.refresh_token)
    /\ creds.token = token.token

\* C3: an upload that returns has created exactly one new remote object, whose
\* parent list is [folder_id] and whose name is the base name of file_path, and it
\* returns that object's identifier.
C3_ReturnedUploadCreatedOneObject ==
    IsUpload /\ pc = "returned"
    => /\ Len(requests) = 1
       /\ objectsBefore \subseteq objects
       /\ \E o \in objects :
             /\ objects \ objectsBefore = {o}
             /\ o.parents = <<folder_id>>
             /\ IsBaseNameOf(o.name, file_path)
             /\ o.name # <<>>
             /\ file_id = o.id
             /\ \A b \in objectsBefore : b.id # o.id

C3_Witness ==
    /\ op = "upload_file_to_drive"
    /\ pc = "returned"
    /\ Len(file_path) > 1
    /\ file_id # None
    /\ Cardinality(objects) = Cardinality(objectsBefore) + 1

\* C4, as claimed: when folder_id names no existing container, every upload call ends
\* in a NotFoundError, returns no file_id and leaves no new remote object.
C4_Original ==
    IsUpload /\ Ended /\ folder_id \notin ExistingFolders
    => /\ pc = "raised"
       /\ error = "NotFoundError"
       /\ file_id = None
       /\ objects = objectsBefore

\* C4, amended: when folder_id names no existing container, every upload call ends in
\* an exception raised to the caller, returns no file_id and leaves no new remote
\* object; the exception is NotFoundError whenever the create-file request was sent
\* and the service accepted its credentials and answered it.
C4_MissingFolderRaises ==
    IsUpload /\ Ended /\ folder_id \notin ExistingFolders
    => /\ pc = "raised"
       /\ error # NoError
       /\ file_id = None
       /\ objects = objectsBefore
       /\ requests # <<>> /\ response \notin {"failed", "401"}
          => error = "NotFoundError" /\ response = "404"

C4_Witness ==
    /\ IsUpload
    /\ pc = "raised"
    /\ folder_id \notin ExistingFolders
    /\ Len(requests) = 1
    /\ Valid(requests[1].credentials)
    /\ error = "NotFoundError"

\* C5: when a refresh is attempted with an invalid or revoked refresh token,
\* authenticate_with_token fails with TokenRefreshError; an upload that triggered it
\* raises that error, sends no create-file request and returns no file_id.
C5_RefreshFailurePropagates ==
    AuthCalled /\ refreshes # <<>> /\ ~refreshes[1].accepted
    => /\ pc = "raised"
       /\ error = "TokenRefreshError"
       /\ requests = <<>>
       /\ file_id = None
       /\ objects = objectsBefore

C5_Witness ==
    /\ IsUpload
    /\ pc = "raised"
    /\ Len(refreshes) = 1
    /\ ~refreshes[1].accepted
    /\ ~Live(token.refresh_token)
    /\ error = "TokenRefreshError"

\* C6: the create-file request of the raw upload carries metadata whose name is the
\* base name of file_path and which has no mimeType field.
C6_RawMetadata ==
    op = "upload_file_to_drive"
    => \A i \in 1..Len(requests) :
          /\ IsBaseNameOf(requests[i].body.name, file_path)
          /\ "mimeType" \notin DOMAIN requests[i].body
          /\ DOMAIN requests[i].body = {"name", "parents"}

C6_Witness ==
    /\ op = "upload_file_to_drive"
    /\ Len(requests) = 1
    /\ Len(file_path) > 1
    /\ requests[1].body.name # file_path

\* C7: whatever the extension of file_path, the create-file request of the
\* spreadsheet upload carries the native spreadsheet type as metadata mimeType and
\* the xlsx type as the declared MIME type of its media body.
C7_SheetMimeTypes ==
    op = "upload_file_to_drive_as_google_sheet"
    => \A i \in 1..Len(requests) :
          /\ "mimeType" \in DOMAIN requests[i].body
          /\ requests[i].body.mimeType = SHEET_MIME
          /\ requests[i].media_body.mimetype = XLSX_MIME

C7_Witness ==
    /\ op = "upload_file_to_drive_as_google_sheet"
    /\ Len(requests) = 1
    /\ GuessType(file_path) # XLSX_MIME
    /\ requests[1].media_body.mimetype = XLSX_MIME

\* C8: a successful get_token_auth yields a token record whose access token and
\* refresh token are both non-empty and whose scopes are exactly the one-element
\* full-access drive scope list.
C8_TokenRecordComplete ==
    op = "get_token_auth" /\ pc = "returned"
    => /\ token_auth.token # None
       /\ token_auth.refresh_token # None
       /\ token_auth.token = AccessToken(accessIssued)
       /\ token_auth.refresh_token = RefreshToken(grants)
       /\ Len(token_auth.scopes) = 1
       /\ token_auth.scopes[1] = DRIVE_SCOPE

C8_Witness ==
    /\ op = "get_token_auth"
    /\ pc = "returned"
    /\ token_auth # NoRecord
    /\ grants > 0

\* C9, as claimed: whenever the handle built from a token record is invalid and the
\* record has a refresh token, authenticate_with_token makes a refresh call, whether
\* or not the handle is flagged expired.
C9_Original ==
    AuthCalled /\ ~Valid(built) /\ built.refresh_token # None
    => refreshes # <<>>

\* C9, amended: authenticate_with_token makes a refresh call exactly when the handle
\* is invalid, is flagged expired and has a refresh token; an invalid handle that is
\* not flagged expired is returned as it was built.
C9_RefreshIffExpired ==
    AuthCalled
    => /\ refreshes # <<>>
          <=> (~Valid(built) /\ built.expired /\ built.refresh_token # None)
       /\ ~Valid(built) /\ ~built.expired => creds = built

C9_Witness ==
    /\ op = "authenticate_with_token"
    /\ pc = "returned"
    /\ ~Valid(built)
    /\ ~built.expired
    /\ Live(built.refresh_token)
    /\ refreshes = <<>>
    /\ ~Valid(creds)

\* C10: every create-file request is sent after credential materialization has
\* completed and with a handle that is valid at that moment.
C10_CreateOnlyWithValidHandle ==
    \A i \in 1..Len(requests) :
        /\ AuthCalled
        /\ requests[i].credentials = creds
        /\ Valid(requests[i].credentials)

====
